---- MODULE Spec2Model ----
(***************************************************************************)
(* Model of src/utils/sessionUtils.ts: the session inspector, the page     *)
(* classifier and the two event handlers installed by                      *)
(* setupSessionListeners (visibilitychange and storage), for one browser   *)
(* tab.  Time is Date.now() in milliseconds.  Paths are the strings of     *)
(* window.location.pathname.                                               *)
(***************************************************************************)
EXTENDS Integers, Sequences, FiniteSets, TLC

\* ------------------------------------------------------------------ bounds
\* Visibility and storage events are delivered while now < MaxNow.
MaxNow == 6600
\* Storage events delivered to one document.
MaxStorageEvents == 1
\* Calls of setupSessionListeners in one document (SpecMulti only).
MaxInstalls == 2

\* ------------------------------------------------------- program constants
DebounceMs == 1000
GraceMs == 500
SetupDelayMs == 100
ExpiringSoonSeconds == 300
SecondsPerHour == 3600
SecondsPerMinute == 60

\* ------------------------------------------------------------- value sets
NULL == "<null>"
NoNav == "<none>"
NoSession == -1
InitialNow == {5000}
Delays == {500}
Users == {"u1", "u2"}
UserIds == Users \cup {NULL}
\* The users that sign in in this tab.
TabUsers == {"u1"}
ExpiresAtValues == {5, 6}
Tokens == {NULL, "", "null", "undefined", "tok"}
Paths == {"/about", "/login", "/profile", "/dashboard/home",
          "/backpanel/settings", "/backpanel/login", "/backpanel/dashboard"}
Listeners == 1..MaxInstalls

\* ------------------------------------------------------ string primitives
\* String.prototype.includes
Includes(s, sub) ==
    \E i \in 1..(Len(s) - Len(sub) + 1) : SubSeq(s, i, i + Len(sub) - 1) = sub

\* String.prototype.startsWith
StartsWith(s, pre) ==
    Len(s) >= Len(pre) /\ SubSeq(s, 1, Len(pre)) = pre

\* Template literal conversion of a nullable string: `${null}` is "null".
TemplateStr(v) == IF v = NULL THEN "null" ELSE v

\* The key `supabase-session-${currentUserId}`.
SessionKey(uid) == "supabase-session-" \o TemplateStr(uid)

\* --------------------------------------------------------- page classifier
IsOnLoginPage(p) ==
    \/ Includes(p, "/login")
    \/ Includes(p, "/register")
    \/ Includes(p, "/forgot-password")
    \/ Includes(p, "/reset-password")

IsInAdminArea_RootOnly(p) == p = "/backpanel"

IsInAdminArea(p) == StartsWith(p, "/backpanel")

PublicPages == {"/", "/about", "/contact", "/faq", "/policies", "/courses",
                "/tutors", "/learners", "/job-seekers", "/job-providers"}

IsPublicPage(p) == p \in PublicPages

\* -------------------------------------------------------- session manager
\* sessionManager.getSession(userId): the stored record of that user, if any.
GetSession(ss, uid) == IF uid \in Users THEN ss[uid] ELSE NoSession

\* sessionManager.clearAllSessions(): no user session record is left.
ManagerClearAll(ss) == [u \in Users |-> NoSession]

\* ------------------------------------------------------- session inspector
\* Math.floor(Date.now() / 1000)
UnixSeconds(t) == t \div 1000

GetSessionInfo_ValidAtZero(ss, uid, t) ==
    LET session == GetSession(ss, uid)
    IN  IF session = NoSession
        THEN [isValid |-> FALSE]
        ELSE [isValid       |-> session - UnixSeconds(t) >= 0,
              expiresAt     |-> session,
              timeRemaining |-> session - UnixSeconds(t),
              user          |-> uid]

GetSessionInfo(ss, uid, t) ==
    LET session == GetSession(ss, uid)
    IN  IF session = NoSession
        THEN [isValid |-> FALSE]
        ELSE [isValid       |-> session - UnixSeconds(t) > 0,
              expiresAt     |-> session,
              timeRemaining |-> session - UnixSeconds(t),
              user          |-> uid]

\* sessionInfo.timeRemaining !== undefined
HasTimeRemaining(info) == "timeRemaining" \in DOMAIN info

\* sessionInfo.timeRemaining is undefined or 0: !sessionInfo.timeRemaining
NoTimeRemaining(info) == ~HasTimeRemaining(info) \/ info.timeRemaining = 0

\* isSessionExpiringSoon, on the snapshot it takes
IsSessionExpiringSoon_Strict(info) ==
    IF ~info.isValid \/ NoTimeRemaining(info)
    THEN FALSE
    ELSE info.timeRemaining < ExpiringSoonSeconds

IsSessionExpiringSoon(info) ==
    IF ~info.isValid \/ NoTimeRemaining(info)
    THEN FALSE
    ELSE info.timeRemaining <= ExpiringSoonSeconds

\* isAdminAuthenticated, on the token it reads:
\* !!(adminToken && adminToken !== 'null' && adminToken !== 'undefined')
IsAdminAuthenticated_NoUndefined(tok) ==
    tok # NULL /\ tok # "" /\ tok # "null"

IsAdminAuthenticated(tok) ==
    tok # NULL /\ tok # "" /\ tok # "null" /\ tok # "undefined"

\* -------------------------------------------------------- expiry formatter
Digits == "0123456789"

\* The decimal digit d as a string.
Digit(d) == SubSeq(Digits, d + 1, d + 1)

\* `${n}` for a non-negative integer n.
RECURSIVE NumberToString(_)
NumberToString(n) ==
    IF n < 10 THEN Digit(n) ELSE NumberToString(n \div 10) \o Digit(n % 10)

FormatTimeRemaining_TotalMinutes(seconds) ==
    IF seconds <= 0 THEN "Expired"
    ELSE LET hours == seconds \div SecondsPerHour
             minutes == seconds \div SecondsPerMinute
             secs == seconds % SecondsPerMinute
         IN  IF hours > 0
             THEN NumberToString(hours) \o "h " \o NumberToString(minutes) \o "m"
             ELSE IF minutes > 0
             THEN NumberToString(minutes) \o "m " \o NumberToString(secs) \o "s"
             ELSE NumberToString(secs) \o "s"

FormatTimeRemaining(seconds) ==
    IF seconds <= 0 THEN "Expired"
    ELSE LET hours == seconds \div SecondsPerHour
             minutes == (seconds % SecondsPerHour) \div SecondsPerMinute
             secs == seconds % SecondsPerMinute
         IN  IF hours > 0
             THEN NumberToString(hours) \o "h " \o NumberToString(minutes) \o "m"
             ELSE IF minutes > 0
             THEN NumberToString(minutes) \o "m " \o NumberToString(secs) \o "s"
             ELSE NumberToString(secs) \o "s"

\* ------------------------------------------------------------------ state
VARIABLES
    now,              \* Date.now(), ms
    path,             \* window.location.pathname
    visibilityState,  \* document.visibilityState
    currentUserId,    \* sessionStorage 'current-user-id'
    adminToken,       \* sessionStorage 'admin_session_token'
    sessions,         \* the session manager's records: user -> expires_at
    installed,        \* listener pairs installed by setupSessionListeners
    setupAt,          \* when the auto-setup timer of the module fires, 0 once fired
    guard,            \* isHandlingVisibilityChange of each listener closure
    last,             \* lastVisibilityChangeTime of each listener closure
    invs,             \* visibility-handler invocations suspended at an await
    pendingNav,       \* the navigation this document has asked for, if any
    log,              \* side effects issued by the handlers of this document
    nStorage,         \* storage events delivered to this document
    lastFire,         \* time of the previous visibilitychange seen by a handler
    triggers,         \* trigger times that passed both guards, per listener
    landed,           \* the document was reached by a navigation of a handler
    step              \* the handler step that produced this state

vars == <<now, path, visibilityState, currentUserId, adminToken, sessions,
          installed, setupAt, guard, last, invs, pendingNav, log, nStorage,
          lastFire, triggers, landed, step>>

\* A step of the environment (clock, router, other code of the tab).
EnvStep ==
    [op |-> "env", t |-> 0, l |-> 0, gap |-> 0, held |-> {}, passed |-> {},
     started |-> {},
     threw |-> FALSE, path |-> "", vis |-> "", token |-> NULL,
     info |-> [isValid |-> FALSE], restored |-> FALSE, key |-> "",
     old |-> NULL, new |-> NULL, uid |-> NULL, out |-> <<>>,
     arg |-> 0, ret |-> FALSE, text |-> "", outcome |-> "", settled |-> ""]

Effect(kind, target, by, l, trig) ==
    [kind |-> kind, target |-> target, by |-> by, l |-> l, trig |-> trig]

\* What the handlers can change besides their own closure state.
World == [sessions |-> sessions, adminToken |-> adminToken,
          pendingNav |-> pendingNav, out |-> <<>>]

Emit(w, e) == [w EXCEPT !.out = Append(@, e)]

\* window.location.href = target
Navigate(w, target, by, l, trig) ==
    Emit([w EXCEPT !.pendingNav = target], Effect("redirect", target, by, l, trig))

\* window.location.reload()
Reload(w, p, by, l, trig) ==
    Emit([w EXCEPT !.pendingNav = p], Effect("reload", p, by, l, trig))

\* sessionUtils.clearAllSessions(); managerThrows: the session manager's
\* clearAllSessions throws before anything is removed.
ClearAllSessions_KeepsToken(w, managerThrows) ==
    IF managerThrows
    THEN w
    ELSE [w EXCEPT !.sessions = ManagerClearAll(@)]

ClearAllSessions(w, managerThrows) ==
    IF managerThrows
    THEN w
    ELSE [w EXCEPT !.sessions = ManagerClearAll(@), !.adminToken = NULL]

\* ------------------------------------------- visibility handler, decisions
\* if (isHandlingVisibilityChange) return;
PassesReentrancy_Ignored(g) == TRUE

PassesReentrancy(g) == ~g

\* if (now - lastVisibilityChangeTime < 1000) return;
PassesDebounce_Half(t, lst) == ~(t - lst < GraceMs)

PassesDebounce(t, lst) == ~(t - lst < DebounceMs)

\* lastVisibilityChangeTime = now, reached only past both guards
NextLast_Stale(passes, t, lst) == lst

NextLast_Always(passes, t, lst) == t

NextLast(passes, t, lst) == IF passes THEN t ELSE lst

\* visible && !isOnLoginPage() && !isPublicPage()
PageEligible_NoLoginCheck(vis, p) == vis = "visible" /\ ~IsPublicPage(p)

PageEligible(vis, p) ==
    vis = "visible" /\ ~IsOnLoginPage(p) /\ ~IsPublicPage(p)

\* finally { isHandlingVisibilityChange = false }
ReleaseGuard_NotOnError(threw) == threw

ReleaseGuard(threw) == FALSE

\* !adminSessionToken || adminSessionToken === 'null' || ... === 'undefined'
AdminTokenMissing_NoSentinels(tok) == tok = NULL \/ tok = ""

AdminTokenMissing(tok) ==
    tok = NULL \/ tok = "" \/ tok = "null" \/ tok = "undefined"

AdminShouldRedirect(tok, p) ==
    AdminTokenMissing(tok) /\ p # "/backpanel/login"

\* !isValid && timeRemaining !== undefined && timeRemaining <= 0
SessionDefinitelyExpired_AnyInvalid(info) == ~info.isValid

SessionDefinitelyExpired(info) ==
    ~info.isValid /\ HasTimeRemaining(info) /\ info.timeRemaining <= 0

\* refreshSession(): !!restoredSession, false when restoreSession rejects.
RefreshOutcomes == {"session", "null", "undefined", "reject"}

RefreshSession(outcome) == outcome = "session"

\* The promise refreshSession returns: the catch of line 210 turns a
\* rejection of restoreSession into a fulfilment with false.
RefreshSessionPromise_NoCatch(outcome) ==
    IF outcome = "reject"
    THEN [settled |-> "rejected", value |-> FALSE]
    ELSE [settled |-> "fulfilled", value |-> RefreshSession(outcome)]

RefreshSessionPromise(outcome) ==
    [settled |-> "fulfilled", value |-> RefreshSession(outcome)]

\* if (!restored) { clearAllSessions(); location.href = '/login' }
LogoutAfterRefresh_UnlessNavigating(restored) == ~restored /\ pendingNav = NoNav

LogoutAfterRefresh(restored) == ~restored

\* ------------------------------------------------------------------- Init
\* The module has just been loaded: its setup timer is armed and no listener
\* is installed yet.
FreshDocument ==
    /\ installed = 0
    /\ setupAt = now + SetupDelayMs
    /\ guard = [l \in Listeners |-> FALSE]
    /\ last = [l \in Listeners |-> 0]
    /\ invs = <<>>
    /\ pendingNav = NoNav
    /\ log = <<>>
    /\ nStorage = 0
    /\ lastFire = 0
    /\ triggers = [l \in Listeners |-> <<>>]
    /\ landed = FALSE
    /\ step = EnvStep

Init ==
    /\ now \in InitialNow
    /\ path \in Paths
    /\ visibilityState \in {"visible", "hidden"}
    /\ currentUserId \in TabUsers \cup {NULL}
    /\ adminToken \in Tokens
    /\ sessions \in [Users -> {NoSession} \cup ExpiresAtValues]
    /\ \A u \in Users \ TabUsers : sessions[u] = NoSession
    /\ FreshDocument

RemoveAt(seq, i) == SubSeq(seq, 1, i - 1) \o SubSeq(seq, i + 1, Len(seq))

\* The visibility state a visibilitychange event leaves behind.
Toggled(vis) == IF vis = "visible" THEN "hidden" ELSE "visible"

\* ------------------------------------------ visibility handler, first part
\* Lines 107-120 of every installed handler, run to the first await (or to
\* the finally block when the page check fails).
VisibilityChange ==
    /\ now < MaxNow
    /\ LET vis == Toggled(visibilityState)
           passed == {l \in 1..installed :
                        PassesReentrancy(guard[l]) /\ PassesDebounce(now, last[l])}
           started == {l \in passed : PageEligible(vis, path)}
           fresh == [l \in 1..installed |->
                       [l |-> l, pc |-> "grace", wake |-> now + GraceMs,
                        trig |-> now, info |-> [isValid |-> FALSE]]]
       IN  /\ visibilityState' = vis
           /\ last' = [l \in Listeners |-> NextLast(l \in passed, now, last[l])]
           /\ triggers' = [l \in Listeners |->
                             IF l \in passed THEN Append(triggers[l], now)
                             ELSE triggers[l]]
           /\ guard' = [l \in Listeners |->
                          IF l \in started THEN TRUE
                          ELSE IF l \in passed THEN ReleaseGuard(FALSE)
                          ELSE guard[l]]
           /\ invs' = invs \o SelectSeq(fresh, LAMBDA r : r.l \in started)
           /\ lastFire' = IF installed >= 1 THEN now ELSE lastFire
           /\ UNCHANGED landed
           /\ step' = [EnvStep EXCEPT !.op = "vis", !.t = now,
                          !.gap = now - lastFire, !.passed = passed,
                          !.held = {l \in 1..installed : guard[l]},
                          !.started = started, !.path = path, !.vis = vis]
    /\ UNCHANGED <<now, path, currentUserId, adminToken, sessions, installed,
                   setupAt, pendingNav, log, nStorage>>

\* ----------------------------------- visibility handler, after the grace
\* Lines 126-142: the timer of line 124 has fired.  inspectThrows: the
\* session inspection or the storage read of lines 126-127 throws.
AfterGrace(i, inspectThrows) ==
    /\ i \in 1..Len(invs)
    /\ invs[i].pc = "grace"
    /\ now >= invs[i].wake
    /\ LET inv == invs[i]
           info == GetSessionInfo(sessions, currentUserId, now)
           admin == IsInAdminArea(path)
           refresh == ~inspectThrows /\ ~admin /\ SessionDefinitelyExpired(info)
           w == IF ~inspectThrows /\ admin /\ AdminShouldRedirect(adminToken, path)
                THEN Navigate(World, "/backpanel/login", "vis", inv.l, inv.trig)
                ELSE IF refresh
                THEN Emit(World, Effect("refresh", "", "vis", inv.l, inv.trig))
                ELSE World
       IN  /\ invs' = IF refresh
                      THEN [invs EXCEPT ![i] = [@ EXCEPT !.pc = "refresh", !.info = info]]
                      ELSE RemoveAt(invs, i)
           /\ guard' = IF refresh THEN guard
                       ELSE [guard EXCEPT ![inv.l] = ReleaseGuard(inspectThrows)]
           /\ pendingNav' = w.pendingNav
           /\ log' = log \o w.out
           /\ step' = [EnvStep EXCEPT !.op = "grace", !.t = inv.trig, !.l = inv.l,
                          !.threw = inspectThrows, !.path = path,
                          !.token = adminToken, !.info = info, !.out = w.out]
    /\ UNCHANGED <<now, path, visibilityState, currentUserId, adminToken,
                   sessions, installed, setupAt, last, nStorage, lastFire, triggers, landed>>

\* What a successful restoreSession leaves in the session manager.
Restored(ss, uid, t) ==
    IF uid \in Users THEN [ss EXCEPT ![uid] = UnixSeconds(t) + 1] ELSE ss

\* Lines 142-148: restoreSession has settled.  clearThrows: the session
\* manager's clearAllSessions throws.
AfterRefresh(i, outcome, clearThrows) ==
    /\ i \in 1..Len(invs)
    /\ invs[i].pc = "refresh"
    /\ LET inv == invs[i]
           restored == RefreshSession(outcome)
           logout == LogoutAfterRefresh(restored)
           w0 == IF outcome = "session"
                 THEN [World EXCEPT !.sessions = Restored(@, currentUserId, now)]
                 ELSE World
           w1 == IF logout
                 THEN ClearAllSessions(
                        Emit(w0, Effect("clear", "", "vis", inv.l, inv.trig)),
                        clearThrows)
                 ELSE w0
           w == IF logout /\ ~clearThrows
                THEN Navigate(w1, "/login", "vis", inv.l, inv.trig)
                ELSE w1
       IN  /\ (~logout => ~clearThrows)
           /\ invs' = RemoveAt(invs, i)
           /\ guard' = [guard EXCEPT ![inv.l] = ReleaseGuard(logout /\ clearThrows)]
           /\ sessions' = w.sessions
           /\ adminToken' = w.adminToken
           /\ pendingNav' = w.pendingNav
           /\ log' = log \o w.out
           /\ step' = [EnvStep EXCEPT !.op = "settle", !.t = inv.trig, !.l = inv.l,
                          !.threw = logout /\ clearThrows, !.path = path,
                          !.info = inv.info, !.restored = restored, !.out = w.out]
    /\ UNCHANGED <<now, path, visibilityState, currentUserId, installed,
                   setupAt, last, nStorage, lastFire, triggers, landed>>

\* ---------------------------------------------- storage handler, decisions
\* e.key === `supabase-session-${currentUserId}` && e.newValue === null
SessionRemoved_AnyUser(key, new, uid) ==
    /\ \E u \in UserIds : key = SessionKey(u)
    /\ new = NULL

SessionRemoved(key, new, uid) == key = SessionKey(uid) /\ new = NULL

\* !isOnLoginPage() && !isInAdminArea() && !isPublicPage() && includes('/dashboard')
ProtectedUserPage(p) ==
    /\ ~IsOnLoginPage(p)
    /\ ~IsInAdminArea(p)
    /\ ~IsPublicPage(p)
    /\ Includes(p, "/dashboard")

\* e.key === 'current-user-id' && e.newValue !== currentUserId
UserChanged_AgainstOld(key, old, new, uid) == key = "current-user-id" /\ new # old

UserChanged(key, old, new, uid) == key = "current-user-id" /\ new # uid

\* !isOnLoginPage() && !isPublicPage() && includes('/dashboard')
DashboardPage(p) ==
    ~IsOnLoginPage(p) /\ ~IsPublicPage(p) /\ Includes(p, "/dashboard")

\* e.key === 'admin_session_token' && e.newValue === null
AdminTokenRemoved(key, new) == key = "admin_session_token" /\ new = NULL

\* isInAdminArea() && !isOnLoginPage(), then pathname !== '/backpanel/login'
AdminPageToLeave_AnyArea(p) == ~IsOnLoginPage(p) /\ p # "/backpanel/login"

AdminPageToLeave(p) ==
    IsInAdminArea(p) /\ ~IsOnLoginPage(p) /\ p # "/backpanel/login"

\* Lines 160-198 for the listener l, run on the world w.  clearThrows: the
\* session manager's clearAllSessions throws (the catch then skips the rest
\* of the handler).
StorageHandler(w, l, key, old, new, clearThrows) ==
    LET uid == currentUserId
        clears == SessionRemoved(key, new, uid) /\ ProtectedUserPage(path)
        w1 == IF clears
              THEN ClearAllSessions(Emit(w, Effect("clear", "", "storage", l, now)),
                                    clearThrows)
              ELSE w
        w2 == IF clears THEN Navigate(w1, "/login", "storage", l, now) ELSE w1
        w3 == IF UserChanged(key, old, new, uid) /\ DashboardPage(path)
              THEN Reload(w2, path, "storage", l, now)
              ELSE w2
        w4 == IF AdminTokenRemoved(key, new) /\ AdminPageToLeave(path)
              THEN Navigate(w3, "/backpanel/login", "storage", l, now)
              ELSE w3
    IN  IF clears /\ clearThrows THEN w1 ELSE w4

\* The storage listeners l..n in the order they were installed.
RECURSIVE RunStorageHandlers(_, _, _, _, _, _, _)
RunStorageHandlers(w, l, n, key, old, new, clearThrows) ==
    IF l > n THEN w
    ELSE RunStorageHandlers(StorageHandler(w, l, key, old, new, clearThrows),
                            l + 1, n, key, old, new, clearThrows)

StorageKeys ==
    {SessionKey(u) : u \in UserIds} \cup {"current-user-id", "admin_session_token"}

StorageValues == UserIds

\* The old values the events carry.
StorageOldValues == {NULL, "u1"}

\* The write of another tab that the event reports: a removed session key is
\* a removed session record.
ExternalWrite(ss, key, new) ==
    [u \in Users |-> IF key = SessionKey(u) /\ new = NULL THEN NoSession ELSE ss[u]]

\* A storage event (key, oldValue, newValue) is delivered to the tab.
StorageEvent(key, old, new, clearThrows) ==
    /\ now < MaxNow
    /\ nStorage < MaxStorageEvents
    /\ old # new
    /\ LET w0 == [World EXCEPT !.sessions = ExternalWrite(@, key, new)]
           clears == SessionRemoved(key, new, currentUserId) /\ ProtectedUserPage(path)
           w == RunStorageHandlers(w0, 1, installed, key, old, new, clearThrows)
       IN  /\ (clearThrows => clears /\ installed >= 1)
           /\ sessions' = w.sessions
           /\ adminToken' = w.adminToken
           /\ pendingNav' = w.pendingNav
           /\ log' = log \o w.out
           /\ step' = [EnvStep EXCEPT !.op = "storage", !.t = now, !.l = installed,
                          !.threw = clearThrows, !.path = path,
                          !.key = key, !.old = old, !.new = new,
                          !.uid = currentUserId, !.out = w.out]
    /\ nStorage' = nStorage + 1
    /\ UNCHANGED <<now, path, visibilityState, currentUserId, installed,
                   setupAt, guard, last, invs, lastFire, triggers, landed>>

\* ------------------------------------------------------------ environment
TimerPending ==
    \/ \E i \in 1..Len(invs) : invs[i].pc = "grace" /\ invs[i].wake > now
    \/ installed = 0 /\ now < setupAt

\* The clock advances.
Tick(d) ==
    /\ now < MaxNow \/ TimerPending
    /\ now' = now + d
    /\ step' = EnvStep
    /\ UNCHANGED <<path, visibilityState, currentUserId, adminToken, sessions,
                   installed, setupAt, guard, last, invs, pendingNav, log,
                   nStorage, lastFire, triggers, landed>>

\* The application's router changes the path without leaving the document.
Route(p) ==
    /\ p # path
    /\ path' = p
    /\ step' = EnvStep
    /\ UNCHANGED <<now, visibilityState, currentUserId, adminToken, sessions,
                   installed, setupAt, guard, last, invs, pendingNav, log,
                   nStorage, lastFire, triggers, landed>>

\* The authentication flows of the tab write the per-tab storage and the
\* session manager's record (same-tab writes raise no storage event).
AuthWrite(uid, tok, u, e) ==
    /\ currentUserId' = uid
    /\ adminToken' = tok
    /\ sessions' = [sessions EXCEPT ![u] = e]
    /\ <<currentUserId', adminToken', sessions'>> # <<currentUserId, adminToken, sessions>>
    /\ \/ uid = currentUserId /\ tok = adminToken
       \/ uid = currentUserId /\ e = sessions[u]
       \/ tok = adminToken /\ e = sessions[u]
    /\ step' = EnvStep
    /\ UNCHANGED <<now, path, visibilityState, installed, setupAt, guard, last,
                   invs, pendingNav, log, nStorage, lastFire, triggers, landed>>

\* setTimeout(() => sessionUtils.setupSessionListeners(), 100) fires.
AutoSetup ==
    /\ installed = 0
    /\ now >= setupAt
    /\ installed' = 1
    /\ setupAt' = 0
    /\ guard' = [guard EXCEPT ![1] = FALSE]
    /\ last' = [last EXCEPT ![1] = 0]
    /\ step' = EnvStep
    /\ UNCHANGED <<now, path, visibilityState, currentUserId, adminToken,
                   sessions, invs, pendingNav, log, nStorage, lastFire, triggers, landed>>

\* Other code calls the exported setupSessionListeners again.
ExplicitSetup ==
    /\ installed >= 1
    /\ installed < MaxInstalls
    /\ installed' = installed + 1
    /\ guard' = [guard EXCEPT ![installed + 1] = FALSE]
    /\ last' = [last EXCEPT ![installed + 1] = 0]
    /\ step' = EnvStep
    /\ UNCHANGED <<now, path, visibilityState, currentUserId, adminToken,
                   sessions, setupAt, invs, pendingNav, log, nStorage, lastFire, triggers, landed>>

\* ------------------------------------------ calls of the exported utilities
\* Other code of the tab calls sessionUtils.getSessionInfo().
GetSessionInfoCall ==
    /\ step' = [EnvStep EXCEPT !.op = "getSessionInfo", !.t = now,
                   !.uid = currentUserId,
                   !.info = GetSessionInfo(sessions, currentUserId, now)]
    /\ UNCHANGED <<now, path, visibilityState, currentUserId, adminToken, sessions,
                   installed, setupAt, guard, last, invs, pendingNav, log,
                   nStorage, lastFire, triggers, landed>>

\* sessionUtils.isSessionExpiringSoon()
IsSessionExpiringSoonCall ==
    /\ LET info == GetSessionInfo(sessions, currentUserId, now)
       IN  step' = [EnvStep EXCEPT !.op = "isSessionExpiringSoon", !.t = now,
                       !.uid = currentUserId, !.info = info,
                       !.ret = IsSessionExpiringSoon(info)]
    /\ UNCHANGED <<now, path, visibilityState, currentUserId, adminToken, sessions,
                   installed, setupAt, guard, last, invs, pendingNav, log,
                   nStorage, lastFire, triggers, landed>>

\* sessionUtils.formatTimeRemaining(seconds)
FormatTimeRemainingCall(seconds) ==
    /\ step' = [EnvStep EXCEPT !.op = "formatTimeRemaining", !.arg = seconds,
                   !.text = FormatTimeRemaining(seconds)]
    /\ UNCHANGED <<now, path, visibilityState, currentUserId, adminToken, sessions,
                   installed, setupAt, guard, last, invs, pendingNav, log,
                   nStorage, lastFire, triggers, landed>>

\* sessionUtils.clearAllSessions(); the step records the token it found.
ClearAllSessionsCall(managerThrows) ==
    /\ LET w == ClearAllSessions(World, managerThrows)
       IN  /\ sessions' = w.sessions
           /\ adminToken' = w.adminToken
    /\ step' = [EnvStep EXCEPT !.op = "clearAllSessions", !.t = now,
                   !.threw = managerThrows, !.token = adminToken,
                   !.uid = currentUserId,
                   !.info = GetSessionInfo(sessions, currentUserId, now)]
    /\ UNCHANGED <<now, path, visibilityState, currentUserId, installed, setupAt,
                   guard, last, invs, pendingNav, log, nStorage, lastFire,
                   triggers, landed>>

\* await sessionUtils.refreshSession(), with the way restoreSession settles.
RefreshSessionCall(outcome) ==
    /\ sessions' = IF outcome = "session"
                   THEN Restored(sessions, currentUserId, now)
                   ELSE sessions
    /\ LET promise == RefreshSessionPromise(outcome)
       IN  step' = [EnvStep EXCEPT !.op = "refreshSession", !.t = now,
                       !.outcome = outcome, !.settled = promise.settled,
                       !.ret = promise.value]
    /\ UNCHANGED <<now, path, visibilityState, currentUserId, adminToken,
                   installed, setupAt, guard, last, invs, pendingNav, log,
                   nStorage, lastFire, triggers, landed>>

\* sessionUtils.isAdminAuthenticated()
IsAdminAuthenticatedCall ==
    /\ step' = [EnvStep EXCEPT !.op = "isAdminAuthenticated", !.t = now,
                   !.token = adminToken, !.ret = IsAdminAuthenticated(adminToken)]
    /\ UNCHANGED <<now, path, visibilityState, currentUserId, adminToken, sessions,
                   installed, setupAt, guard, last, invs, pendingNav, log,
                   nStorage, lastFire, triggers, landed>>

\* The navigation asked for completes: the document is replaced, the module
\* is loaded again and the suspended invocations of the old document are gone.
Land ==
    /\ pendingNav # NoNav
    /\ path' = pendingNav
    /\ pendingNav' = NoNav
    /\ installed' = 0
    /\ setupAt' = now + SetupDelayMs
    /\ guard' = [l \in Listeners |-> FALSE]
    /\ last' = [l \in Listeners |-> 0]
    /\ invs' = <<>>
    /\ log' = <<>>
    /\ nStorage' = 0
    /\ lastFire' = 0
    /\ triggers' = [l \in Listeners |-> <<>>]
    /\ landed' = TRUE
    /\ step' = EnvStep
    /\ UNCHANGED <<now, visibilityState, currentUserId, adminToken, sessions>>

\* --------------------------------------------------------- specifications
GraceElapses == \E i \in 1..Len(invs), thr \in BOOLEAN : AfterGrace(i, thr)

RefreshSettles ==
    \E i \in 1..Len(invs), o \in RefreshOutcomes, thr \in BOOLEAN :
        AfterRefresh(i, o, thr)

StorageFires ==
    \E key \in StorageKeys, old \in StorageOldValues, new \in StorageValues,
       thr \in BOOLEAN : StorageEvent(key, old, new, thr)

TimePasses == \E d \in Delays : Tick(d)

Routes == \E p \in Paths : Route(p)

AuthWrites ==
    \E uid \in TabUsers \cup {NULL}, tok \in Tokens, u \in TabUsers,
       e \in {NoSession} \cup ExpiresAtValues : AuthWrite(uid, tok, u, e)

\* The visibility handler and the environment of the tab.
NextVis ==
    \/ VisibilityChange
    \/ GraceElapses
    \/ RefreshSettles
    \/ TimePasses
    \/ Routes
    \/ AuthWrites
    \/ AutoSetup
    \/ Land

SpecVis == Init /\ [][NextVis]_vars

\* The grace timer fires, restoreSession settles and the clock advances.
FairVis ==
    /\ SpecVis
    /\ WF_vars(GraceElapses)
    /\ WF_vars(RefreshSettles)
    /\ WF_vars(TimePasses)

\* The storage handler alone: it runs to completion on the path and the
\* storage it finds, so those are drawn at Init.
NextStorage ==
    \/ StorageFires
    \/ TimePasses
    \/ AutoSetup
    \/ Land

SpecStorage == Init /\ [][NextStorage]_vars

\* Both handlers, in a tab whose path and storage only the handlers change.
NextBoth ==
    \/ VisibilityChange
    \/ GraceElapses
    \/ RefreshSettles
    \/ StorageFires
    \/ TimePasses
    \/ AutoSetup
    \/ Land

\* A tab that is loaded in the background, with a real admin token or none,
\* and a user session, if any, that expires while the tab is in the background.
InitBoth ==
    /\ Init
    /\ visibilityState = "hidden"
    /\ adminToken \in {NULL, "tok"}
    /\ \A u \in Users : sessions[u] \in {NoSession, 6}

SpecBoth == InitBoth /\ [][NextBoth]_vars

\* The seconds handed to formatTimeRemaining: around every tier boundary,
\* and some large values.
FormatInputs ==
    (-2..61) \cup (3598..3601) \cup
    {119, 120, 121, 3659, 3660, 3661, 7199, 7200, 86399, 86400, 90061, 360000}

\* The expiries of the stored session: around the present and around the
\* 300 s mark.
UtilExpiresAtValues == {4, 5, 6, 7, 305, 306, 307}

\* The exported utilities, called by other code of the tab at any time.
FormatsTime == \E seconds \in FormatInputs : FormatTimeRemainingCall(seconds)

ClearsAll == \E thr \in BOOLEAN : ClearAllSessionsCall(thr)

Refreshes == \E o \in RefreshOutcomes : RefreshSessionCall(o)

NextUtils ==
    \/ GetSessionInfoCall
    \/ IsSessionExpiringSoonCall
    \/ FormatsTime
    \/ ClearsAll
    \/ Refreshes
    \/ IsAdminAuthenticatedCall
    \/ TimePasses

InitUtils ==
    /\ now \in InitialNow
    /\ path = "/profile"
    /\ visibilityState = "visible"
    /\ currentUserId \in TabUsers \cup {NULL}
    /\ adminToken \in Tokens
    /\ sessions \in [Users -> {NoSession} \cup UtilExpiresAtValues]
    /\ \A u \in Users \ TabUsers : sessions[u] = NoSession
    /\ FreshDocument

SpecUtils == InitUtils /\ [][NextUtils]_vars

\* Everything.
Next == NextVis \/ StorageFires \/ NextUtils

Spec == Init /\ [][Next]_vars

\* Several calls of setupSessionListeners, in a tab whose path and storage
\* only the visibility handlers change.
NextMulti ==
    \/ VisibilityChange
    \/ GraceElapses
    \/ RefreshSettles
    \/ TimePasses
    \/ AutoSetup
    \/ ExplicitSetup
    \/ Land

SpecMulti == InitBoth /\ [][NextMulti]_vars

\* ----------------------------------------------------- claim vocabulary
\* The invocations of the listener l that are past the two guards.
InFlight(l) == {i \in 1..Len(invs) : invs[i].l = l}

IsClear(e) == e.kind = "clear"

IsLoginRedirect(e) == e.kind = "redirect" /\ e.target = "/login"

IsAdminRedirect(e) == e.kind = "redirect" /\ e.target = "/backpanel/login"

IsReload(e) == e.kind = "reload"

IsNavigation(e) == e.kind = "redirect" \/ e.kind = "reload"

\* The places of a sequence of effects that hold a clear, a redirect to
\* /login, a redirect to /backpanel/login, a reload.
Clears(effects) == {k \in 1..Len(effects) : IsClear(effects[k])}

LoginRedirects(effects) == {k \in 1..Len(effects) : IsLoginRedirect(effects[k])}

AdminRedirects(effects) == {k \in 1..Len(effects) : IsAdminRedirect(effects[k])}

Reloads(effects) == {k \in 1..Len(effects) : IsReload(effects[k])}

\* The effects the visibility handler of l issued for the trigger t.
OfInvocation(effects, l, t) ==
    {k \in 1..Len(effects) :
        effects[k].by = "vis" /\ effects[k].l = l /\ effects[k].trig = t}

\* A snapshot that is invalid with a defined, non-positive timeRemaining.
KnownExpired(info) ==
    /\ info.isValid = FALSE
    /\ DOMAIN info = {"isValid", "expiresAt", "timeRemaining", "user"}
    /\ info.timeRemaining <= 0

\* The token values that count as no admin token.
NoAdminToken == {NULL, "", "null", "undefined"}

\* The markers of a login page.
LoginMarkers == {"/login", "/register", "/forgot-password", "/reset-password"}

OnLoginPage(p) == \E m \in LoginMarkers : Includes(p, m)

\* ------------------------------------------------------------------ claims

\* C1: at most one invocation of the visibility handler of a listener is
\* past the two guards at any time, whether it is suspended in the grace
\* delay or in the refreshSession await, and the guard is held exactly while
\* there is one.
C1_MutualExclusion ==
    \A l \in Listeners :
        /\ Cardinality(InFlight(l)) <= 1
        /\ guard[l] <=> InFlight(l) # {}

\* C1 witness: an event that the debounce would let through arrives while an
\* invocation is suspended in the refreshSession await and is dropped.
C1_Witness ==
    /\ step.op = "vis"
    /\ step.held = {1}
    /\ step.passed = {}
    /\ step.t - last[1] >= DebounceMs
    /\ \E i \in InFlight(1) : invs[i].pc = "refresh"

\* C2 as stated: an event that fires less than 1000 ms after the previous
\* visibilitychange event is ignored.
C2_Original ==
    (step.op = "vis" /\ step.gap < DebounceMs) => step.passed = {}

\* C2 amended: an event that fires less than 1000 ms after the previous
\* event that passed both guards is ignored (a dropped event does not restart
\* the window), so any two invocations that pass both guards have trigger
\* times at least 1000 ms apart.
C2_Debounce ==
    \A l \in Listeners :
        /\ \A i, j \in 1..Len(triggers[l]) :
               i < j => triggers[l][j] - triggers[l][i] >= DebounceMs
        /\ (step.op = "vis" /\ l \in step.passed) =>
               /\ Len(triggers[l]) >= 1
               /\ triggers[l][Len(triggers[l])] = step.t

\* C2 witness: an event is accepted 1000 ms after the previous accepted one
\* although a dropped event came in between, less than 1000 ms before it.
C2_Witness ==
    /\ step.op = "vis"
    /\ 1 \in step.passed
    /\ step.gap < DebounceMs
    /\ Len(triggers[1]) = 2
    /\ triggers[1][2] - triggers[1][1] = DebounceMs

\* C3: a held guard is always released (also when the session inspection or
\* the teardown throws), and an event that finds the guard free at least
\* 1000 ms after the last accepted trigger is accepted.
C3_GuardRelease ==
    /\ \A l \in Listeners : guard[l] ~> ~guard[l]
    /\ [](\A l \in Listeners :
            (/\ step.op = "vis"
             /\ l \in 1..installed
             /\ l \notin step.held
             /\ \A k \in 1..Len(triggers[l]) : step.t - triggers[l][k] >= DebounceMs)
            => l \in step.passed)
    /\ []((step.op \in {"grace", "settle"} /\ step.threw)
            => (step.out \in {<<>>, <<Effect("clear", "", "vis", step.l, step.t)>>}
                /\ InFlight(step.l) = {} /\ ~guard[step.l]))

\* C3 witness: the teardown threw and the guard is free again.
C3_Witness ==
    /\ step.op = "settle"
    /\ step.threw
    /\ ~guard[step.l]

\* C4: the visibility handler clears the sessions or redirects to /login
\* only when the snapshot taken after the grace period was invalid with a
\* defined timeRemaining <= 0 and the refresh made afterwards returned false;
\* without a session record, or when the refresh returns true, it does
\* neither; the refresh is attempted before the clear.
C4_NoFalseLogout ==
    /\ \A k \in 1..Len(step.out) :
         (step.out[k].by = "vis" /\ (IsClear(step.out[k]) \/ IsLoginRedirect(step.out[k])))
         => (step.op = "settle" /\ KnownExpired(step.info) /\ ~step.restored)
    /\ (step.op \in {"grace", "settle"} /\ ~IsInAdminArea(step.path)
          /\ (~KnownExpired(step.info) \/ step.restored))
         => \A k \in 1..Len(step.out) :
               ~IsClear(step.out[k]) /\ ~IsNavigation(step.out[k])
    /\ \A k \in 1..Len(log) :
         (log[k].by = "vis" /\ IsClear(log[k]))
         => \E j \in 1..(k - 1) :
               log[j] = Effect("refresh", "", "vis", log[k].l, log[k].trig)
    /\ \A i \in 1..Len(invs) :
         invs[i].pc = "refresh" =>
            /\ KnownExpired(invs[i].info)
            /\ \E j \in 1..Len(log) :
                 log[j] = Effect("refresh", "", "vis", invs[i].l, invs[i].trig)

\* C4 witness: the refresh of an expired session failed and the handler
\* cleared the sessions and redirected to /login.
C4_Witness ==
    /\ step.op = "settle"
    /\ ~step.restored
    /\ step.info.timeRemaining = 0
    /\ step.out = <<Effect("clear", "", "vis", step.l, step.t),
                    Effect("redirect", "/login", "vis", step.l, step.t)>>

\* C5: an invocation that finds the tab in the admin area after the grace
\* period redirects to /backpanel/login exactly when the token it reads then
\* is absent, empty, "null" or "undefined" and the path is not
\* /backpanel/login; with any other token it does nothing.
C5_AdminRedirect ==
    (step.op = "grace" /\ ~step.threw /\ StartsWith(step.path, "/backpanel"))
    => step.out = IF step.token \in NoAdminToken /\ step.path # "/backpanel/login"
                  THEN <<Effect("redirect", "/backpanel/login", "vis", step.l, step.t)>>
                  ELSE <<>>

\* C5 witness: the token "undefined" on /backpanel/settings: one redirect.
C5_Witness ==
    /\ step.op = "grace"
    /\ step.path = "/backpanel/settings"
    /\ step.token = "undefined"
    /\ Cardinality(AdminRedirects(step.out)) = 1
    /\ pendingNav = "/backpanel/login"

\* C6: of two visibilitychange events less than 1000 ms apart on a protected
\* page with an expired session and a failing refresh, the second is dropped,
\* and the accepted one produces exactly one clearAllSessions and exactly one
\* redirect to /login.
C6_OneRedirect ==
    \A l \in Listeners :
        /\ (step.op = "vis" /\ l \in 1..installed
              /\ \E k \in 1..Len(triggers[l]) :
                    triggers[l][k] < step.t /\ step.t - triggers[l][k] < DebounceMs)
           => l \notin step.passed
        /\ \A k \in 1..Len(log) :
             log[k].by = "vis" /\ log[k].l = l =>
                /\ \E n \in 1..Len(triggers[l]) : triggers[l][n] = log[k].trig
                /\ \A m \in 1..Len(log) : log[m] = log[k] => m = k
        /\ (step.op = "settle" /\ step.l = l /\ KnownExpired(step.info)
              /\ ~step.restored /\ ~step.threw)
           => /\ step.out = <<Effect("clear", "", "vis", l, step.t),
                              Effect("redirect", "/login", "vis", l, step.t)>>
              /\ Cardinality(OfInvocation(log, l, step.t) \cap LoginRedirects(log)) = 1
              /\ Cardinality(OfInvocation(log, l, step.t) \cap Clears(log)) = 1

\* C6 witness: the tab became visible on /dashboard/home, a second event came
\* less than 1000 ms later and was dropped, the refresh failed, and the log
\* of the document holds one clear and one redirect to /login.
C6_Witness ==
    /\ step.op = "settle"
    /\ step.path = "/dashboard/home"
    /\ ~step.restored /\ ~step.threw
    /\ triggers[step.l] = <<step.t>>
    /\ lastFire > step.t /\ lastFire - step.t < DebounceMs
    /\ Cardinality(LoginRedirects(log)) = 1
    /\ Cardinality(Clears(log)) = 1

\* The page test of the user-change reload.
OnDashboard(p) ==
    Includes(p, "/dashboard") /\ ~OnLoginPage(p) /\ p \notin PublicPages

\* C7 as stated: a storage event with key current-user-id whose value changed
\* to a different value triggers exactly one reload on a dashboard page and
\* nothing elsewhere.
C7_Original ==
    (step.op = "storage" /\ step.l = 1 /\ step.key = "current-user-id"
       /\ step.old # step.new)
    => step.out = IF OnDashboard(step.path)
                  THEN <<Effect("reload", step.path, "storage", 1, step.t)>>
                  ELSE <<>>

\* C7 amended: a storage event with key current-user-id whose new value
\* differs from the tab's own current-user-id (the old value of the event is
\* not consulted) triggers exactly one reload on a dashboard page that is
\* neither a login nor a public page, and nothing otherwise; it never clears
\* sessions or redirects.
C7_UserChange ==
    (step.op = "storage" /\ step.l = 1 /\ step.key = "current-user-id")
    => step.out = IF step.new # step.uid /\ OnDashboard(step.path)
                  THEN <<Effect("reload", step.path, "storage", 1, step.t)>>
                  ELSE <<>>

\* C7 witness: old "u1", new "u2" in a tab without that user, on
\* /dashboard/home: one reload.
C7_Witness ==
    /\ step.op = "storage"
    /\ step.key = "current-user-id"
    /\ step.old = "u1" /\ step.new = "u2"
    /\ step.path = "/dashboard/home"
    /\ Cardinality(Reloads(step.out)) = 1
    /\ pendingNav = "/dashboard/home"

\* C8: a storage event with key admin_session_token and new value null
\* redirects to /backpanel/login when the tab is in the admin area and not on
\* a login page, and does nothing on /backpanel/login or outside the area.
C8_AdminTokenRemoved ==
    (step.op = "storage" /\ step.l = 1 /\ step.key = "admin_session_token")
    => step.out = IF /\ step.new = NULL
                     /\ StartsWith(step.path, "/backpanel")
                     /\ ~OnLoginPage(step.path)
                  THEN <<Effect("redirect", "/backpanel/login", "storage", 1, step.t)>>
                  ELSE <<>>

\* C8 witness: the token is removed while the tab is on /backpanel/settings.
C8_Witness ==
    /\ step.op = "storage"
    /\ step.key = "admin_session_token" /\ step.new = NULL
    /\ step.path = "/backpanel/settings"
    /\ pendingNav = "/backpanel/login"

\* The page test of the session-removed logout.
OnProtectedUserPage(p) ==
    /\ ~OnLoginPage(p)
    /\ ~StartsWith(p, "/backpanel")
    /\ p \notin PublicPages
    /\ Includes(p, "/dashboard")

\* C9: the removal of the session key of the tab's current user causes
\* clearAllSessions followed by a redirect to /login iff the page is a
\* dashboard page that is not a login, admin or public page; the removal of
\* another user's key, or the same event elsewhere, causes nothing.
C9_SessionRemoved ==
    (step.op = "storage" /\ step.l = 1
       /\ step.key \in {"supabase-session-" \o TemplateStr(u) : u \in UserIds})
    => IF /\ step.key = "supabase-session-" \o TemplateStr(step.uid)
          /\ step.new = NULL
          /\ OnProtectedUserPage(step.path)
       THEN /\ Len(step.out) >= 1
            /\ step.out[1] = Effect("clear", "", "storage", 1, step.t)
            /\ ~step.threw =>
                 /\ step.out = <<Effect("clear", "", "storage", 1, step.t),
                                 Effect("redirect", "/login", "storage", 1, step.t)>>
                 /\ \A u \in Users : sessions[u] = NoSession
                 /\ adminToken = NULL
                 /\ pendingNav = "/login"
       ELSE step.out = <<>>

\* C9 witness: the session of the current user u1 is removed while the tab is
\* on /dashboard/home.
C9_Witness ==
    /\ step.op = "storage"
    /\ step.uid = "u1" /\ step.key = "supabase-session-u1" /\ step.new = NULL
    /\ step.path = "/dashboard/home"
    /\ pendingNav = "/login"
    /\ Len(step.out) = 2

\* C10: an event that arrives while the path is a login page starts no
\* invocation and issues no redirect, no reload and no clear; a document on a
\* login page has asked for no navigation.
C10_NoRedirectLoop ==
    /\ (step.op = "vis" /\ OnLoginPage(step.path)) => step.started = {}
    /\ (step.op = "storage" /\ OnLoginPage(step.path)) => step.out = <<>>
    /\ OnLoginPage(path) => (invs = <<>> /\ log = <<>> /\ pendingNav = NoNav)

\* C10 witness: after a redirect the document is on /backpanel/login, the
\* tab becomes visible without an admin token, the event passes both guards,
\* and nothing is started.
C10_Witness ==
    /\ step.op = "vis"
    /\ step.vis = "visible"
    /\ step.passed = {1}
    /\ step.started = {}
    /\ landed
    /\ path = "/backpanel/login"
    /\ adminToken \in NoAdminToken

\* C11: refreshSession never rejects: its promise is fulfilled with true iff
\* restoreSession resolved with a session record, and with false when
\* restoreSession resolved with null or undefined or rejected.
C11_RefreshNeverThrows ==
    step.op = "refreshSession" =>
        /\ step.settled = "fulfilled"
        /\ step.ret = (step.outcome = "session")
        /\ step.outcome \in {"null", "undefined", "reject"} => step.ret = FALSE

\* C11 witness: restoreSession rejected and refreshSession resolved to false.
C11_Witness ==
    /\ step.op = "refreshSession"
    /\ step.outcome = "reject"
    /\ step.settled = "fulfilled"
    /\ step.ret = FALSE

\* C12: a call of clearAllSessions that returns leaves no user session
\* record and no admin_session_token, from any storage state, and a second
\* call right after it changes nothing.
C12_ClearIdempotent ==
    (step.op = "clearAllSessions" /\ ~step.threw) =>
        /\ \A u \in Users : sessions[u] = NoSession
        /\ adminToken = NULL
        /\ LET again == ClearAllSessions(World, FALSE)
           IN  again.sessions = sessions /\ again.adminToken = adminToken

\* C12 witness: the call found a valid session and a real admin token and
\* removed both.
C12_Witness ==
    /\ step.op = "clearAllSessions"
    /\ ~step.threw
    /\ step.info.isValid
    /\ step.token = "tok"
    /\ sessions["u1"] = NoSession
    /\ adminToken = NULL

\* C13: the snapshot of getSessionInfo has timeRemaining = expires_at minus
\* the whole seconds of the clock and isValid = (timeRemaining > 0); without
\* a session record it is exactly {isValid: false}; the call changes nothing
\* but the value it returns.
C13_SnapshotInvariant ==
    /\ [](step.op = "getSessionInfo" =>
            LET record == IF step.uid \in Users THEN sessions[step.uid] ELSE NoSession
                seconds == CHOOSE k \in 0..10 : k * 1000 <= step.t /\ step.t < (k + 1) * 1000
            IN  IF record = NoSession
                THEN step.info = [isValid |-> FALSE]
                ELSE /\ DOMAIN step.info = {"isValid", "expiresAt", "timeRemaining", "user"}
                     /\ step.info.expiresAt = record
                     /\ step.info.timeRemaining = record - seconds
                     /\ step.info.isValid = (step.info.timeRemaining > 0))
    /\ [][step'.op = "getSessionInfo" =>
            UNCHANGED <<now, path, visibilityState, currentUserId, adminToken,
                        sessions, installed, setupAt, guard, last, invs,
                        pendingNav, log, nStorage, lastFire, triggers, landed>>]_vars

\* C13 witness: the session expired one second ago: isValid is false and
\* timeRemaining is -1.
C13_Witness ==
    /\ step.op = "getSessionInfo"
    /\ HasTimeRemaining(step.info)
    /\ step.info.timeRemaining = -1
    /\ step.info.isValid = FALSE

\* C14: formatTimeRemaining returns "Expired" for seconds <= 0, "{seconds}s"
\* in [1,59], "{m}m {s}s" with m = seconds div 60 and s = seconds mod 60 in
\* [60,3599], and "{h}h {m}m" with h = seconds div 3600 and
\* m = (seconds mod 3600) div 60 from 3600 on, the seconds dropped.
C14_FormatTiers ==
    step.op = "formatTimeRemaining" =>
        LET seconds == step.arg
        IN  /\ seconds <= 0 => step.text = "Expired"
            /\ (1 <= seconds /\ seconds <= 59) =>
                  step.text = NumberToString(seconds) \o "s"
            /\ (60 <= seconds /\ seconds <= 3599) =>
                  step.text = NumberToString(seconds \div 60) \o "m "
                              \o NumberToString(seconds % 60) \o "s"
            /\ seconds >= 3600 =>
                  step.text = NumberToString(seconds \div 3600) \o "h "
                              \o NumberToString((seconds % 3600) \div 60) \o "m"
            /\ seconds = 0 => step.text = "Expired"
            /\ seconds = 1 => step.text = "1s"
            /\ seconds = 59 => step.text = "59s"
            /\ seconds = 60 => step.text = "1m 0s"
            /\ seconds = 3599 => step.text = "59m 59s"
            /\ seconds = 3600 => step.text = "1h 0m"
            /\ seconds = 3661 => step.text = "1h 1m"
            /\ seconds = 90061 => step.text = "25h 1m"

\* C14 witness: 3661 seconds are shown as "1h 1m".
C14_Witness ==
    /\ step.op = "formatTimeRemaining"
    /\ step.arg = 3661
    /\ step.text = "1h 1m"

\* C15: isSessionExpiringSoon returns true iff the snapshot is valid and its
\* timeRemaining is at most 300: false without a session, false for an
\* expired session, false at 301, true from 1 to 300.
C15_ExpiringSoon ==
    step.op = "isSessionExpiringSoon" =>
        /\ step.ret = (step.info.isValid /\ step.info.timeRemaining <= 300)
        /\ step.info = [isValid |-> FALSE] => step.ret = FALSE
        /\ HasTimeRemaining(step.info) =>
              /\ step.info.timeRemaining <= 0 => step.ret = FALSE
              /\ step.info.timeRemaining \in 1..300 => step.ret = TRUE
              /\ step.info.timeRemaining >= 301 => step.ret = FALSE

\* C15 witness: with exactly 300 seconds left the session is expiring soon.
C15_Witness ==
    /\ step.op = "isSessionExpiringSoon"
    /\ HasTimeRemaining(step.info)
    /\ step.info.timeRemaining = 300
    /\ step.ret = TRUE

\* C16 as stated: isAdminAuthenticated is true iff the token exists in the
\* per-tab storage and is neither "null" nor "undefined".
C16_Original ==
    step.op = "isAdminAuthenticated" =>
        step.ret = (step.token # NULL /\ step.token \notin {"null", "undefined"})

\* C16 amended: isAdminAuthenticated is true iff the token exists, is not the
\* empty string and is neither "null" nor "undefined"; for every token value
\* it is the negation of the test the visibility handler uses to decide on
\* the admin redirect.
C16_AdminAuthenticated ==
    step.op = "isAdminAuthenticated" =>
        /\ step.ret = (step.token \notin {NULL, "", "null", "undefined"})
        /\ step.ret = ~AdminTokenMissing(step.token)

\* C16 witness: the stored token is the empty string and the answer is false.
C16_Witness ==
    /\ step.op = "isAdminAuthenticated"
    /\ step.token = ""
    /\ adminToken = ""
    /\ step.ret = FALSE

\* C17 as stated: the guard and the timestamp are one pair shared by all the
\* visibility handlers of the tab, so with setupSessionListeners called more
\* than once still at most one reconciliation is in flight in the tab and
\* one visibilitychange event starts at most one.
C17_ProcessWide ==
    /\ Len(invs) <= 1
    /\ step.op = "vis" => Cardinality(step.started) <= 1

\* C18: the storage handler is not held back by a suspended invocation of the
\* visibility handler, and the visibility handler is not held back by a
\* navigation the storage handler has already asked for: each issues what
\* its own checks decide; all the redirects issued in one document have the
\* same target.
C18_AcceptedRace ==
    /\ (step.op = "storage" /\ step.l = 1 /\ InFlight(1) # {} /\ ~step.threw
          /\ step.key = "supabase-session-" \o TemplateStr(step.uid)
          /\ step.new = NULL /\ OnProtectedUserPage(step.path))
       => step.out = <<Effect("clear", "", "storage", 1, step.t),
                       Effect("redirect", "/login", "storage", 1, step.t)>>
    /\ (step.op = "storage" /\ step.l = 1 /\ InFlight(1) # {}
          /\ step.key = "admin_session_token" /\ step.new = NULL
          /\ StartsWith(step.path, "/backpanel") /\ ~OnLoginPage(step.path))
       => step.out = <<Effect("redirect", "/backpanel/login", "storage", 1, step.t)>>
    /\ (step.op = "settle" /\ ~step.restored /\ ~step.threw)
       => /\ step.out = <<Effect("clear", "", "vis", step.l, step.t),
                          Effect("redirect", "/login", "vis", step.l, step.t)>>
          /\ pendingNav = "/login"
    /\ \A j, k \in 1..Len(log) :
         (log[j].kind = "redirect" /\ log[k].kind = "redirect")
         => log[j].target = log[k].target

\* C18 witness: while the visibility handler waits for refreshSession, the
\* storage handler clears the sessions and redirects to /login; the refresh
\* then fails and the visibility handler clears and redirects again.
C18_Witness ==
    /\ step.op = "settle"
    /\ Cardinality(Clears(log)) = 2
    /\ Cardinality(LoginRedirects(log)) = 2
    /\ \E j, k \in 1..Len(log) :
          /\ j < k
          /\ log[j] = Effect("redirect", "/login", "storage", 1, log[j].trig)
          /\ log[k] = Effect("redirect", "/login", "vis", 1, step.t)
          /\ log[j].trig > step.t
    /\ pendingNav = "/login"

\* C19: every visibilitychange event that passes both guards sets the
\* debounce timestamp to its own time, whatever the new visibility state and
\* the page; an event that is dropped leaves the timestamp and the guard as
\* they were, also when it is the reentrancy guard that drops it; so a
\* transition to visible less than 1000 ms after an accepted transition is
\* dropped and starts no session inspection.
C19_DebounceFrame ==
    /\ [](step.op = "vis" =>
            \A l \in 1..installed :
               /\ l \in step.passed => last[l] = step.t
               /\ l \in step.held => l \notin step.passed
               /\ l \in step.started => (l \in step.passed /\ step.vis = "visible")
               /\ (\E k \in 1..Len(triggers[l]) :
                      triggers[l][k] < step.t /\ step.t - triggers[l][k] < DebounceMs)
                  => (l \notin step.passed /\ l \notin step.started))
    /\ [][step'.op = "vis" =>
            \A l \in 1..installed :
               IF l \in step'.passed
               THEN last'[l] = now
               ELSE last'[l] = last[l] /\ guard'[l] = guard[l]
                    /\ triggers'[l] = triggers[l] /\ InFlight(l)' = InFlight(l)]_vars

\* C19 witness: a transition to hidden was accepted (and, the tab being
\* hidden, inspected nothing); the transition to visible 500 ms later is
\* dropped by the debounce and starts nothing.
C19_Witness ==
    /\ step.op = "vis"
    /\ step.vis = "visible"
    /\ installed = 1
    /\ step.held = {}
    /\ step.passed = {}
    /\ step.gap = 500
    /\ last[1] = step.t - 500
    /\ Len(triggers[1]) >= 1
    /\ triggers[1][Len(triggers[1])] = last[1]
    /\ invs = <<>>
    /\ ~IsOnLoginPage(path) /\ ~IsPublicPage(path)

\* C20: an invocation of the visibility handler that finds the tab in the
\* admin area after the grace period calls neither refreshSession nor
\* clearAllSessions and can only redirect to /backpanel/login, whatever the
\* user session is; one that finds the tab outside the admin area never
\* redirects to /backpanel/login and can only navigate to /login.
C20_RealmSeparation ==
    /\ (step.op = "grace" /\ StartsWith(step.path, "/backpanel"))
       => /\ step.out \in {<<>>, <<Effect("redirect", "/backpanel/login", "vis",
                                          step.l, step.t)>>}
          /\ InFlight(step.l) = {}
    /\ (step.op = "grace" /\ ~StartsWith(step.path, "/backpanel"))
       => step.out \in {<<>>, <<Effect("refresh", "", "vis", step.l, step.t)>>}
    /\ step.op = "settle"
       => \A k \in 1..Len(step.out) :
             /\ ~IsAdminRedirect(step.out[k])
             /\ IsNavigation(step.out[k]) => IsLoginRedirect(step.out[k])
    /\ \A j, k \in 1..Len(log) :
         (/\ log[j].by = "vis" /\ log[k].by = "vis"
          /\ log[j].l = log[k].l /\ log[j].trig = log[k].trig
          /\ IsAdminRedirect(log[j]))
         => k = j

\* C20 witness: on /backpanel/settings with an expired user session and no
\* admin token: one redirect to /backpanel/login, no refresh, no clear.
C20_Witness ==
    /\ step.op = "grace"
    /\ step.path = "/backpanel/settings"
    /\ KnownExpired(step.info)
    /\ step.token \in NoAdminToken
    /\ step.out = <<Effect("redirect", "/backpanel/login", "vis", step.l, step.t)>>
    /\ Clears(log) = {}
    /\ sessions["u1"] # NoSession

====
